---- MODULE Spec2Model ----
(***************************************************************************)
(* A model of frescobaldi_app/midiplayer.py: the event list built by       *)
(* make_event_list() and the Player that walks it (set_song, seek,         *)
(* seek_measure, set_position, next_event, handle_event, finish,           *)
(* set_tempo_factor).                                                      *)
(*                                                                         *)
(* Conventions.  Python lists are 0-based, TLA+ sequences 1-based: the     *)
(* Python index i is the TLA+ index i + 1, and _position keeps its Python  *)
(* value.  None is modelled by a falsy value of the type of the field:     *)
(* <<>> for Event.midi and Event.beat, FALSE for Event.time, 0 for the     *)
(* time argument of set_song (None and 0 both fail the test "if time:").   *)
(* A raised exception is recorded in the variable exc; the assignments     *)
(* made before the raise are kept, those after it are not made.            *)
(* The methods take the Player they run on as the parameter self, a record *)
(* of its fields _events, _position and _tempo_factor.                     *)
(***************************************************************************)
EXTENDS Integers, Sequences, FiniteSets, TLC

\* ------------------------------------------------------------------------
\* Bounds of the model
\* ------------------------------------------------------------------------
MaxTime == 2        \* timestamps and song lengths range over 0..MaxTime

Times == 0..MaxTime

\* the time argument of set_song: 0 stands for None (and for 0)
Intervals == {0, 2}

\* the factors handed to set_tempo_factor
TempoFactors == {"1.0", "2.0"}

\* ------------------------------------------------------------------------
\* Songs (the collaborator midisong.Song: fields music, length, beats)
\* ------------------------------------------------------------------------

\* the elements of a set of integers in ascending order
RECURSIVE Ascending(_)
Ascending(S) ==
    IF S = {} THEN <<>>
    ELSE LET m == CHOOSE x \in S : \A y \in S : x <= y
         IN <<m>> \o Ascending(S \ {m})

\* song.music of a song of the given length: no entry, or one entry (t, evs)
\* with the payload evs = <<60>>
MusicLists(length) == { <<>> } \cup { << <<t, <<60>>>> >> : t \in 0..length }

\* song.beats of a song of the given length in 2/4 time, with a beat every
\* period msec from start on: the k-th beat is beat ((k-1) % 2) + 1 of measure
\* ((k-1) \div 2) + 1
BeatsFrom(start, period, length) ==
    LET n == IF start > length THEN 0 ELSE ((length - start) \div period) + 1
    IN [k \in 1..n |->
           <<start + (k - 1) * period, ((k - 1) \div 2) + 1, ((k - 1) % 2) + 1, 2, 4>>]

BeatLists(length) ==
    { <<>> } \cup { BeatsFrom(start, period, length) : start \in {0, 1}, period \in {1, 2} }

\* the songs: nothing happens after the end of the song
Songs ==
    UNION { { [music |-> m, length |-> l, beats |-> b] :
                m \in MusicLists(l), b \in BeatLists(l) } : l \in Times }

\* ------------------------------------------------------------------------
\* class Event and make_event_list
\* ------------------------------------------------------------------------
Event == [midi |-> <<>>, time |-> FALSE, beat |-> <<>>]

\* d[t] of the defaultdict(Event): the stored Event, or a fresh one
Lookup(d, t) == IF t \in DOMAIN d THEN d[t] ELSE Event

\* d[t] = e
Store(d, t, e) == [k \in (DOMAIN d) \cup {t} |-> IF k = t THEN e ELSE d[k]]

\* for t, evs in song.music: d[t].midi = evs
RECURSIVE AddMusic(_, _, _)
AddMusic(d, music, k) ==
    IF k > Len(music) THEN d
    ELSE LET t == music[k][1]
             evs == music[k][2]
         IN AddMusic(Store(d, t, [Lookup(d, t) EXCEPT !.midi = evs]), music, k + 1)

\* AddTimes over range(t, stop - 1, step): the end of the song is left out
RECURSIVE AddTimesExclusive(_, _, _, _)
AddTimesExclusive(d, t, stop, step) ==
    IF t >= stop - 1 THEN d
    ELSE AddTimesExclusive(Store(d, t, [Lookup(d, t) EXCEPT !.time = TRUE]),
                           t + step, stop, step)

\* for t in range(t, stop, step): d[t].time = True
RECURSIVE AddTimes(_, _, _, _)
AddTimes(d, t, stop, step) ==
    IF t >= stop THEN d
    ELSE AddTimes(Store(d, t, [Lookup(d, t) EXCEPT !.time = TRUE]), t + step, stop, step)

\* AddBeats with d[i[0]] = a new Event that has the beat only
RECURSIVE AddBeatsOverwriting(_, _, _)
AddBeatsOverwriting(d, beats, k) ==
    IF k > Len(beats) THEN d
    ELSE LET i == beats[k]
         IN AddBeatsOverwriting(Store(d, i[1], [Event EXCEPT !.beat = Tail(i)]), beats, k + 1)

\* for i in song.beats: d[i[0]].beat = i[1:]
RECURSIVE AddBeats(_, _, _)
AddBeats(d, beats, k) ==
    IF k > Len(beats) THEN d
    ELSE LET i == beats[k]
         IN AddBeats(Store(d, i[1], [Lookup(d, i[1]) EXCEPT !.beat = Tail(i)]), beats, k + 1)

\* SortedItems in the order reversed(sorted(d))
SortedItemsReversed(d) == LET keys == Ascending(DOMAIN d)
                              n == Len(keys)
                          IN [k \in 1..n |-> <<keys[n + 1 - k], d[keys[n + 1 - k]]>>]

\* [(t, d[t]) for t in sorted(d)]
SortedItems(d) == LET keys == Ascending(DOMAIN d)
                  IN [k \in 1..Len(keys) |-> <<keys[k], d[keys[k]]>>]

make_event_list(song, time, beat) ==
    LET d0 == << >>
        d1 == AddMusic(d0, song.music, 1)
        d2 == IF time # 0 THEN AddTimes(d1, 0, song.length + 1, time) ELSE d1
        d3 == IF beat THEN AddBeats(d2, song.beats, 1) ELSE d2
    IN SortedItems(d3)

\* ------------------------------------------------------------------------
\* class Player
\* ------------------------------------------------------------------------
VARIABLES
    song,           \* self._song: <<>> for None, else <<the Song>>
    events,         \* self._events: the list of (time, Event)
    position,       \* self._position
    tempo_factor,   \* self._tempo_factor
    op,             \* the method called last
    args,           \* its arguments
    ret,            \* <<>> if it returned None or raised, else <<the value returned>>
    exc,            \* "" or the exception it raised
    calls,          \* the methods of self it invoked, in order, with their arguments
    origin,         \* _position as the last set_song, seek or seek_measure left it
    elapsed,        \* the sum of the values next_event returned since origin was set
    played,         \* the timestamp next_event handed last to handle_event without
                    \* failure since the song was loaded, -1 if there is none
    twin            \* a second Player that loads the same songs and receives the
                    \* same calls, but other tempo factors: its _position and
                    \* _tempo_factor, and what its last call returned and raised

vars == <<song, events, position, tempo_factor, op, args, ret, exc, calls, origin,
          elapsed, played, twin>>

\* the Player of the variables, and the second Player
Self == [events |-> events, position |-> position, tempo_factor |-> tempo_factor]
Twin == [events |-> events, position |-> twin.position, tempo_factor |-> twin.tempo_factor]

Call(name, a) == [hook |-> name, a |-> a]

\* the result of a method body: the new _position, the value returned,
\* the exception raised and the calls made
Outcome(pos, r, e, c) == [position |-> pos, ret |-> r, exc |-> e, calls |-> c]

\* Player.total_time
total_time(self) ==
    IF Len(self.events) > 0 THEN self.events[Len(self.events)][1] ELSE 0

\* Player.current_time: the value returned and the exception raised
current_time(self) ==
    LET pos == self.position - 1
    IN IF pos >= 0
       THEN IF pos < Len(self.events)
            THEN [ret |-> <<self.events[pos + 1][1]>>, exc |-> ""]
            ELSE [ret |-> <<>>, exc |-> "IndexError"]
       ELSE [ret |-> <<0>>, exc |-> ""]

\* set_position that reports the new time with time_event
set_positionReporting(pos, time_offset) ==
    Outcome(pos, <<>>, "",
            <<Call("set_position", <<pos, time_offset>>), Call("time_event", <<time_offset>>)>>)

\* Player.set_position: the base class drops time_offset
set_position(pos, time_offset) ==
    Outcome(pos, <<>>, "", <<Call("set_position", <<pos, time_offset>>)>>)

\* Bisect with the test "time >= " instead of "time > ": an upper bound
RECURSIVE BisectUpper(_, _, _, _)
BisectUpper(evs, time, pos, end) ==
    IF pos < end
    THEN LET mid == (pos + end) \div 2
         IN IF time >= evs[mid + 1][1]
            THEN BisectUpper(evs, time, mid + 1, end)
            ELSE BisectUpper(evs, time, pos, mid)
    ELSE pos

\* the while loop of Player.seek
RECURSIVE Bisect(_, _, _, _)
Bisect(evs, time, pos, end) ==
    IF pos < end
    THEN LET mid == (pos + end) \div 2
         IN IF time > evs[mid + 1][1]
            THEN Bisect(evs, time, mid + 1, end)
            ELSE Bisect(evs, time, pos, mid)
    ELSE pos

\* SeekOffset with the operands exchanged
SeekOffsetSwapped(evs, pos, time) == time - evs[pos + 1][1]

\* offset = self._events[pos][0] - time
SeekOffset(evs, pos, time) == evs[pos + 1][1] - time

\* seek with the time multiplied by the tempo factor
seekScaled(self, time) ==
    LET scaled == IF self.tempo_factor = "2.0" THEN 2 * time ELSE time
    IN IF scaled # 0
       THEN LET pos == Bisect(self.events, scaled, 0, Len(self.events))
            IN IF pos >= Len(self.events)
               THEN Outcome(self.position, <<>>, "IndexError", <<>>)
               ELSE set_position(pos, SeekOffset(self.events, pos, scaled))
       ELSE set_position(0, 0)

\* Player.seek
seek(self, time) ==
    IF time # 0
    THEN LET pos == Bisect(self.events, time, 0, Len(self.events))
         IN IF pos >= Len(self.events)
            THEN Outcome(self.position, <<>>, "IndexError", <<>>)   \* self._events[pos]
            ELSE set_position(pos, SeekOffset(self.events, pos, time))
    ELSE set_position(0, 0)

\* ScanMeasure without the break at the first beat >= beat of the measure
RECURSIVE ScanMeasureNoBreak(_, _, _, _, _, _)
ScanMeasureNoBreak(evs, i, measnum, beat, pos, result) ==
    IF i >= Len(evs) THEN [position |-> pos, result |-> result]
    ELSE LET e == evs[i + 1][2]
         IN IF e.beat # <<>>
            THEN IF e.beat[1] = measnum
                 THEN ScanMeasureNoBreak(evs, i + 1, measnum, beat, i, TRUE)
                 ELSE IF e.beat[1] > measnum
                      THEN [position |-> pos, result |-> result]
                      ELSE ScanMeasureNoBreak(evs, i + 1, measnum, beat, pos, result)
            ELSE ScanMeasureNoBreak(evs, i + 1, measnum, beat, pos, result)

\* the for loop of Player.seek_measure, from index i on; pos is the local
\* variable position (-1 while unbound) and result the local variable result
RECURSIVE ScanMeasure(_, _, _, _, _, _)
ScanMeasure(evs, i, measnum, beat, pos, result) ==
    IF i >= Len(evs) THEN [position |-> pos, result |-> result]
    ELSE LET e == evs[i + 1][2]
         IN IF e.beat # <<>>
            THEN IF e.beat[1] = measnum
                 THEN IF e.beat[2] >= beat
                      THEN [position |-> i, result |-> TRUE]
                      ELSE IF e.beat[1] > measnum
                           THEN [position |-> i, result |-> TRUE]
                           ELSE ScanMeasure(evs, i + 1, measnum, beat, i, TRUE)
                 ELSE IF e.beat[1] > measnum
                      THEN [position |-> pos, result |-> result]
                      ELSE ScanMeasure(evs, i + 1, measnum, beat, pos, result)
            ELSE ScanMeasure(evs, i + 1, measnum, beat, pos, result)

\* seek_measure that goes to the start of the song when the measure is not found
seek_measureRewinding(self, measnum, beat) ==
    LET found == ScanMeasure(self.events, 0, measnum, beat, -1, FALSE)
    IN IF found.result
       THEN [set_position(found.position, 0) EXCEPT !.ret = <<TRUE>>]
       ELSE [set_position(0, 0) EXCEPT !.ret = <<FALSE>>]

\* Player.seek_measure
seek_measure(self, measnum, beat) ==
    LET found == ScanMeasure(self.events, 0, measnum, beat, -1, FALSE)
    IN IF found.result
       THEN [set_position(found.position, 0) EXCEPT !.ret = <<TRUE>>]
       ELSE Outcome(self.position, <<FALSE>>, "", <<>>)

\* Player.stop, Player.midi_event, Player.time_event, Player.beat_event do nothing
stop == <<Call("stop", <<>>)>>

\* Player.finish
finish == <<Call("finish", <<>>)>> \o stop

\* Player.handle_event: its body reads e.midi, and e is no parameter, no local
\* and no global of the module, so the first statement raises NameError
handle_event(time, event) == [exc |-> "NameError", calls |-> <<>>]

\* Player.next_event
next_event(self) ==
    IF Len(self.events) > 0 /\ self.position < Len(self.events)
    THEN LET time == self.events[self.position + 1][1]
             event == self.events[self.position + 1][2]
             h == handle_event(time, event)
         IN IF h.exc # ""
            THEN Outcome(self.position, <<>>, h.exc, h.calls)
            ELSE IF self.position + 1 < Len(self.events)
                 THEN Outcome(self.position + 1,
                              <<self.events[self.position + 2][1] - time>>, "", h.calls)
                 ELSE Outcome(self.position + 1, <<0>>, "", h.calls \o finish)
    ELSE Outcome(self.position, <<0>>, "", <<>>)

\* ------------------------------------------------------------------------
\* The calls a client makes
\* ------------------------------------------------------------------------
SeekTimes == -1..(MaxTime + 1)
MeasureArgs == 1..3
BeatArgs == 1..3

Apply(name, a, o) ==
    /\ position' = o.position
    /\ op' = name
    /\ args' = a
    /\ ret' = o.ret
    /\ exc' = o.exc
    /\ calls' = o.calls
    /\ origin' = IF name \in {"set_song", "seek", "seek_measure"} THEN o.position ELSE origin
    /\ elapsed' = IF name \in {"set_song", "seek", "seek_measure"} THEN 0
                  ELSE IF name = "next_event" /\ o.ret # <<>> THEN elapsed + o.ret[1]
                  ELSE elapsed
    /\ played' = IF name = "set_song" THEN -1
                 ELSE IF name = "next_event" /\ o.exc = "" /\ o.position # position
                      THEN events[position + 1][1]
                 ELSE played

\* the second Player after the same call, with the outcome o
Mirror(o) ==
    twin' = [position |-> o.position, tempo_factor |-> twin.tempo_factor,
             ret |-> o.ret, exc |-> o.exc]

\* Player.__init__
Init ==
    /\ song = <<>>
    /\ events = <<>>
    /\ position = 0
    /\ tempo_factor = "1.0"
    /\ op = "__init__"
    /\ args = <<>>
    /\ ret = <<>>
    /\ exc = ""
    /\ calls = <<>>
    /\ origin = 0
    /\ elapsed = 0
    /\ played = -1
    /\ twin = [position |-> 0, tempo_factor |-> "1.0", ret |-> <<>>, exc |-> ""]

SetSong ==
    \E s \in Songs, time \in Intervals, beat \in BOOLEAN :
        /\ song' = <<s>>
        /\ events' = make_event_list(s, time, beat)
        /\ Apply("set_song", <<time, IF beat THEN 1 ELSE 0>>,
                 Outcome(position, <<>>, "", <<>>))
        /\ Mirror(Outcome(twin.position, <<>>, "", <<>>))
        /\ UNCHANGED tempo_factor

SetTempoFactor ==
    \E factor \in TempoFactors : \E other \in TempoFactors \ {factor} :
        /\ tempo_factor' = factor
        /\ Apply("set_tempo_factor", <<factor>>, Outcome(position, <<>>, "", <<>>))
        /\ twin' = [position |-> twin.position, tempo_factor |-> other,
                    ret |-> <<>>, exc |-> ""]
        /\ UNCHANGED <<song, events>>

Seek ==
    \E time \in SeekTimes :
        /\ Apply("seek", <<time>>, seek(Self, time))
        /\ Mirror(seek(Twin, time))
        /\ UNCHANGED <<song, events, tempo_factor>>

SeekMeasure ==
    \E measnum \in MeasureArgs, beat \in BeatArgs :
        /\ Apply("seek_measure", <<measnum, beat>>, seek_measure(Self, measnum, beat))
        /\ Mirror(seek_measure(Twin, measnum, beat))
        /\ UNCHANGED <<song, events, tempo_factor>>

NextEvent ==
    /\ Apply("next_event", <<>>, next_event(Self))
    /\ Mirror(next_event(Twin))
    /\ UNCHANGED <<song, events, tempo_factor>>

Next == SetSong \/ SetTempoFactor \/ Seek \/ SeekMeasure \/ NextEvent

Spec == Init /\ [][Next]_vars

\* ------------------------------------------------------------------------
\* Properties
\* ------------------------------------------------------------------------
Timestamp(i) == events[i + 1][1]
Bundle(i) == events[i + 1][2]
LastTimestamp == events[Len(events)][1]

Least(S) == CHOOSE x \in S : \A y \in S : x <= y
Greatest(S) == CHOOSE x \in S : \A y \in S : x >= y

\* the smallest index whose timestamp is >= t, or the length if there is none
LowerBound(t) ==
    LET S == { i \in 0..(Len(events) - 1) : Timestamp(i) >= t }
    IN IF S = {} THEN Len(events) ELSE Least(S)

\* the last call was seek(t) with t inside the timeline
SeekInside ==
    /\ op = "seek"
    /\ Len(events) > 0
    /\ 0 <= args[1]
    /\ args[1] <= LastTimestamp

\* the last call handed exactly (pos, offset) to set_position
Positioned(pos, offset) == calls = <<Call("set_position", <<pos, offset>>)>>

\* C1: for every timeline and every targetTime with 0 <= targetTime <= last
\* timestamp, seek(targetTime) completes and leaves the cursor at the smallest
\* index whose timestamp is >= targetTime, whatever the position was before.
C1_SeekLowerBound ==
    SeekInside => (exc = "" /\ position = LowerBound(args[1]))

\* seek(t) has run on a timeline of several entries with t strictly between
\* two timestamps, and the cursor is on the later one
C1_Witness ==
    /\ SeekInside
    /\ Len(events) >= 2
    /\ \A i \in 0..(Len(events) - 1) : Timestamp(i) # args[1]
    /\ position = LowerBound(args[1])
    /\ position >= 1

\* C2 as stated: for every non-empty timeline and every targetTime with
\* 0 <= targetTime <= last timestamp (0 included), the offset seek passes to
\* set_position is timestamp[found position] - targetTime, and it is >= 0.
C2_OffsetIncludingZero ==
    SeekInside =>
        /\ exc = ""
        /\ position < Len(events)
        /\ Positioned(position, Timestamp(position) - args[1])
        /\ Timestamp(position) - args[1] >= 0

\* C2 as amended: for every non-empty timeline and every targetTime with
\* 0 < targetTime <= last timestamp the offset seek passes to set_position is
\* timestamp[found position] - targetTime and is >= 0; seek(0) passes
\* position 0 and offset 0 without looking at the timeline.
C2_SeekOffset ==
    /\ (SeekInside /\ args[1] > 0) =>
           /\ exc = ""
           /\ position < Len(events)
           /\ Positioned(position, Timestamp(position) - args[1])
           /\ Timestamp(position) - args[1] >= 0
    /\ (op = "seek" /\ args[1] = 0) => (exc = "" /\ Positioned(0, 0))

\* seek(t), t > 0, has handed a positive offset to set_position
C2_Witness ==
    /\ SeekInside
    /\ args[1] > 0
    /\ exc = ""
    /\ Len(calls) = 1
    /\ calls[1].hook = "set_position"
    /\ calls[1].a[2] > 0

\* C3: seek(targetTime) with targetTime greater than the last timestamp
\* (any targetTime > 0 on an empty timeline) completes without failure and
\* leaves the cursor at position = len(timeline).
C3_SeekPastEnd ==
    (/\ op = "seek"
     /\ IF Len(events) = 0 THEN args[1] > 0 ELSE args[1] > LastTimestamp)
    => (exc = "" /\ position = Len(events))

\* C4: seek with a negative time is treated as seek(0): it completes without
\* failure, sets position to 0 and passes a time offset of 0.
C4_SeekNegative ==
    (op = "seek" /\ args[1] < 0) => (exc = "" /\ position = 0 /\ Positioned(0, 0))

\* the notifications the bundle e stored with timestamp t asks for, in order
Notifications(t, e) ==
    (IF e.midi # <<>> THEN <<Call("midi_event", e.midi)>> ELSE <<>>)
    \o (IF e.time THEN <<Call("time_event", <<t>>)>> ELSE <<>>)
    \o (IF e.beat # <<>> THEN <<Call("beat_event", e.beat)>> ELSE <<>>)

\* the calls of c to the hooks named in H, in order
RECURSIVE Only(_, _)
Only(c, H) ==
    IF c = <<>> THEN <<>>
    ELSE (IF Head(c).hook \in H THEN <<Head(c)>> ELSE <<>>) \o Only(Tail(c), H)

Handlers == {"midi_event", "time_event", "beat_event"}

\* C5: when the cursor is Active (position p < len(timeline)), next_event
\* dispatches exactly the bundle stored at index p, advances position to p+1
\* and, if p+1 < len(timeline), returns timestamp[p+1] - timestamp[p].
C5_NextEventStep ==
    [][ (op' = "next_event" /\ position < Len(events)) =>
            /\ exc' = ""
            /\ Only(calls', Handlers) = Notifications(Timestamp(position), Bundle(position))
            /\ position' = position + 1
            /\ (position + 1 < Len(events) =>
                    ret' = <<Timestamp(position + 1) - Timestamp(position)>>) ]_vars

\* C6: stepping a timeline from position 0 with no seek in between, the
\* next_event call that handles the last entry invokes finish() exactly once
\* and returns 0; every later next_event call, and every next_event call on an
\* empty timeline, returns 0, invokes no handler and no finish() and leaves
\* position unchanged.
C6_FinishOnce ==
    [][ op' = "next_event" =>
            /\ (origin = 0 /\ Len(events) > 0 /\ position = Len(events) - 1) =>
                   /\ exc' = ""
                   /\ ret' = <<0>>
                   /\ Len(Only(calls', {"finish"})) = 1
            /\ ((origin = 0 /\ position = Len(events)) \/ Len(events) = 0) =>
                   /\ exc' = ""
                   /\ ret' = <<0>>
                   /\ calls' = <<>>
                   /\ position' = position ]_vars

\* C7: for every bundle handled by next_event the notifications are emitted
\* in the order midi_event, time_event, beat_event, each iff the field of the
\* bundle is set, midi_event with the payload, time_event with the timestamp
\* of the bundle, beat_event with the four components of the beat.
C7_DispatchOrder ==
    [][ (op' = "next_event" /\ position < Len(events)) =>
            Only(calls', Handlers) = Notifications(Timestamp(position), Bundle(position)) ]_vars

\* C8: loading a song with set_song puts the cursor at position 0, whatever
\* position the cursor had before.
C8_LoadResetsPosition == op = "set_song" => position = 0

\* C9: in every reachable state 0 <= position <= len(current timeline).
C9_PositionInRange == 0 <= position /\ position <= Len(events)

\* the indices of the entries that carry a beat marker
Marked == { i \in 0..(Len(events) - 1) : Bundle(i).beat # <<>> }

\* the beat markers are in song order: (measure, beat) never decreases
BeatsInSongOrder ==
    \A i, j \in Marked :
        i < j => \/ Bundle(i).beat[1] < Bundle(j).beat[1]
                 \/ /\ Bundle(i).beat[1] = Bundle(j).beat[1]
                    /\ Bundle(i).beat[2] <= Bundle(j).beat[2]

\* where seek_measure(measnum, beat) is to land: the first entry of the
\* measure whose beat is >= beat, else the last entry of the measure
Landing(measnum, beat) ==
    LET inMeasure == { i \in Marked : Bundle(i).beat[1] = measnum }
        late == { i \in inMeasure : Bundle(i).beat[2] >= beat }
    IN IF late # {} THEN Least(late) ELSE Greatest(inMeasure)

\* C10: when seek_measure(measnum, beat) succeeds on a timeline whose beat
\* markers are in song order, the cursor lands on the first entry of measure
\* measnum whose beat number is >= beat if there is one, else on the last entry
\* of measure measnum; the landing index is a function of the timeline and the
\* arguments alone.
C10_SeekMeasureLanding ==
    (op = "seek_measure" /\ ret = <<TRUE>> /\ BeatsInSongOrder) =>
        /\ exc = ""
        /\ position = Landing(args[1], args[2])
        /\ Positioned(Landing(args[1], args[2]), 0)

\* seek_measure has succeeded in a measure of two beats where no beat is
\* >= the one asked for, and the cursor is on the last entry of the measure
C10_Witness ==
    /\ op = "seek_measure"
    /\ ret = <<TRUE>>
    /\ BeatsInSongOrder
    /\ Cardinality({ i \in Marked : Bundle(i).beat[1] = args[1] }) >= 2
    /\ \A i \in Marked : Bundle(i).beat[1] = args[1] => Bundle(i).beat[2] < args[2]
    /\ position = Greatest({ i \in Marked : Bundle(i).beat[1] = args[1] })
    /\ position < Len(events) - 1

\* C11: if no beat marker of the timeline has measure measnum (a timeline
\* built without beats and an empty timeline included), seek_measure(measnum,
\* beat) returns False without raising and leaves the cursor position unchanged.
C11_SeekMeasureMissing ==
    [][ (op' = "seek_measure" /\ \A i \in Marked : Bundle(i).beat[1] # args'[1]) =>
            /\ ret' = <<FALSE>>
            /\ exc' = ""
            /\ position' = position ]_vars

\* seek_measure has failed on a timeline that has beat markers, none of the
\* measure asked for, with the cursor away from the start
C11_Witness ==
    /\ op = "seek_measure"
    /\ ret = <<FALSE>>
    /\ Marked # {}
    /\ \A i \in Marked : Bundle(i).beat[1] # args[1]
    /\ position >= 1

\* the song, the time interval and the beat flag of the last set_song
Loaded == op = "set_song"
LoadedSong == song[1]
LoadedInterval == args[1]
LoadedBeat == args[2] = 1

\* the timeline has an entry at t with the time flag set
TickAt(t) ==
    \E i \in 0..(Len(events) - 1) : Timestamp(i) = t /\ Bundle(i).time

\* C12 as stated: when a time interval is given and non-zero, the timeline has
\* a time-tick entry at every multiple of the interval from 0 through
\* song.length, and always one at timestamp 0 and one at timestamp song.length.
C12_TickAtLength ==
    (Loaded /\ LoadedInterval # 0) =>
        /\ \A t \in 0..LoadedSong.length : t % LoadedInterval = 0 => TickAt(t)
        /\ TickAt(0)
        /\ TickAt(LoadedSong.length)

\* C12 as amended: when a time interval is given and non-zero, the timeline
\* has a time-tick entry at every multiple of the interval from 0 through
\* song.length, always one at timestamp 0, and one at timestamp song.length
\* exactly when song.length is a multiple of the interval.
C12_TickAtMultiples ==
    (Loaded /\ LoadedInterval # 0) =>
        /\ \A t \in 0..LoadedSong.length : t % LoadedInterval = 0 => TickAt(t)
        /\ TickAt(0)
        /\ TickAt(LoadedSong.length) <=> (LoadedSong.length % LoadedInterval = 0)

\* a song whose length is a positive multiple of the interval has been loaded,
\* and the entry at its end is there for the time tick alone
C12_Witness ==
    /\ Loaded
    /\ LoadedInterval # 0
    /\ LoadedSong.length > 0
    /\ TickAt(LoadedSong.length)
    /\ Bundle(Len(events) - 1).midi = <<>>
    /\ Bundle(Len(events) - 1).beat = <<>>

\* the timestamps of the three sources of the last set_song
MusicTimes == { LoadedSong.music[k][1] : k \in DOMAIN LoadedSong.music }
TickTimes ==
    IF LoadedInterval # 0
    THEN { t \in 0..LoadedSong.length : t % LoadedInterval = 0 }
    ELSE {}
BeatTimes ==
    IF LoadedBeat THEN { LoadedSong.beats[k][1] : k \in DOMAIN LoadedSong.beats } ELSE {}

\* C13: the timeline has an entry at t iff t is a music timestamp, a generated
\* time tick or (when beats are included) a beat timestamp; the bundle at t has
\* its midi field set iff the music has t, its time flag set iff t is a
\* generated tick, its beat field set iff beats are included and the song has a
\* beat at t.
C13_Merge ==
    Loaded =>
        /\ { Timestamp(i) : i \in 0..(Len(events) - 1) }
               = MusicTimes \cup TickTimes \cup BeatTimes
        /\ \A i \in 0..(Len(events) - 1) :
               /\ (Bundle(i).midi # <<>>) <=> (Timestamp(i) \in MusicTimes)
               /\ Bundle(i).time <=> (Timestamp(i) \in TickTimes)
               /\ (Bundle(i).beat # <<>>) <=> (Timestamp(i) \in BeatTimes)

\* a song has been loaded in which music, time tick and beat meet at one
\* timestamp, and the bundle there has the three fields set
C13_Witness ==
    /\ Loaded
    /\ \E i \in 0..(Len(events) - 1) :
           /\ Timestamp(i) \in (MusicTimes \cap TickTimes) \cap BeatTimes
           /\ Bundle(i).midi # <<>>
           /\ Bundle(i).time
           /\ Bundle(i).beat # <<>>

\* C14: for every song, time interval and beat flag the timeline has strictly
\* increasing timestamps; no two entries share a timestamp.
C14_StrictlyIncreasing ==
    \A i, j \in 0..(Len(events) - 1) : i < j => Timestamp(i) < Timestamp(j)

\* a timeline of at least three entries, one of them at a timestamp where the
\* three sources contribute
C14_Witness ==
    /\ Len(events) >= 3
    /\ \E i \in 0..(Len(events) - 1) :
           Bundle(i).midi # <<>> /\ Bundle(i).time /\ Bundle(i).beat # <<>>
    /\ \A i \in 0..(Len(events) - 2) : Timestamp(i) < Timestamp(i + 1)

\* C15: total_time() returns the length in msec of the current song: for
\* every song loaded with set_song, total_time() equals song.length.
C15_TotalTimeIsLength == Loaded => total_time(Self) = LoadedSong.length

\* C16: in every state reached by seek, seek_measure and next_event calls on a
\* loaded timeline, current_time() returns the timestamp of the event most
\* recently dispatched by next_event, or 0 if no event has been dispatched yet.
C16_CurrentTimeIsLastPlayed ==
    (song # <<>> /\ op \in {"seek", "seek_measure", "next_event"}) =>
        current_time(Self) = [ret |-> <<IF played = -1 THEN 0 ELSE played>>, exc |-> ""]

\* C17: the tempo factor is pure storage: it is 1.0 before any set,
\* set_tempo_factor changes the stored factor to the value given and leaves
\* position, timeline and song alone, and two cursors on the same timeline
\* that receive the same calls but different tempo factors have the same
\* positions and the same return values.
C17_TempoPureStorage ==
    /\ tempo_factor = "1.0"
    /\ [][ op' = "set_tempo_factor" =>
               /\ tempo_factor' = args'[1]
               /\ position' = position
               /\ events' = events
               /\ song' = song ]_vars
    /\ [](twin.position = position /\ twin.ret = ret /\ twin.exc = exc)

\* the two cursors have different tempo factors, both have just run a seek
\* that moved them away from the start, and they agree
C17_Witness ==
    /\ op = "seek"
    /\ exc = ""
    /\ twin.tempo_factor # tempo_factor
    /\ position >= 1
    /\ twin.position = position

Emitters == Handlers \cup {"finish", "stop"}

\* C18: only next_event emits notifications: seek, seek_measure, set_position
\* and set_tempo_factor never invoke midi_event, time_event, beat_event, finish
\* or stop and never change the timeline, also when the cursor is moved to the
\* end.
C18_OnlyNextEventNotifies ==
    [][ op' \in {"seek", "seek_measure", "set_tempo_factor"} =>
            /\ Only(calls', Emitters) = <<>>
            /\ events' = events ]_vars

\* a seek has put the cursor on the last entry of a timeline of several
\* entries through set_position, and nothing else was invoked
C18_Witness ==
    /\ op = "seek"
    /\ exc = ""
    /\ Len(events) >= 2
    /\ position = Len(events) - 1
    /\ Len(calls) = 1
    /\ calls[1].hook = "set_position"

\* C19: a zero return of next_event means finished and nothing else:
\* next_event returns 0 iff the cursor is Finished (position = len(timeline))
\* after the call, and a strictly positive delta whenever another event remains.
C19_ZeroMeansFinished ==
    op = "next_event" =>
        /\ exc = ""
        /\ Len(ret) = 1
        /\ (ret[1] = 0) <=> (position = Len(events))
        /\ (position < Len(events)) => (ret[1] > 0)

\* C20: starting from a position p < len(timeline) reached by a load or a seek
\* and calling next_event with no seek in between, every call returns a delta;
\* after a call that leaves the cursor Active the deltas returned so far add up
\* to timestamp[position] - timestamp[p], and up to the Finished state they add
\* up to total_time() - timestamp[p].
C20_DeltasAccumulate ==
    (op = "next_event" /\ origin < Len(events)) =>
        /\ exc = ""
        /\ (position < Len(events)) => (elapsed = Timestamp(position) - Timestamp(origin))
        /\ (position = Len(events)) => (elapsed = total_time(Self) - Timestamp(origin))

====
